---- MODULE Spec2Model ----
(***************************************************************************)
(* Gateway authorization core of openclaw:                                 *)
(*   - resolveGatewayCredentialsFromConfig (client side credential         *)
(*     resolver, a pure function), and                                     *)
(*   - resolveConnectAuthState (server side connection authorization       *)
(*     with the shared-secret rate limiter), run by concurrent handshakes. *)
(* Strings are sequences of one-character strings, so that trimming is a   *)
(* computation on the characters.                                          *)
(***************************************************************************)
EXTENDS Naturals, Sequences, FiniteSets, TLC

VARIABLES
    crPc,         \* credential resolver: "idle" | "returned"
    crParams,     \* the params of the resolver call
    crResult,     \* the ResolvedGatewayCredentials it returned
    resolvedAuth, \* the server's ResolvedGatewayAuth policy
    rateLimiter,  \* whether the server passes a rate limiter (params.rateLimiter)
    limiter,      \* the shared AuthRateLimiter: one entry per (ip, scope)
    hs,           \* the handshakes in flight: params, position, locals
    observed      \* the handshakes whose connectAuth and hasDeviceIdentity
                  \* are kept as they were passed, next to the locals

crVars == <<crPc, crParams, crResult>>

gwVars == <<resolvedAuth, rateLimiter, limiter, hs, observed>>

vars == <<crPc, crParams, crResult, resolvedAuth, rateLimiter, limiter, hs,
          observed>>

----------------------------------------------------------------------------
(* Strings                                                                 *)

\* JavaScript's undefined: a value that is no string of characters.
undefined == <<"undefined">>

\* The characters String.prototype.trim removes.
WhiteSpace == {" "}

RECURSIVE trimStart(_)
trimStart(s) ==
    IF s # <<>> /\ Head(s) \in WhiteSpace THEN trimStart(Tail(s)) ELSE s

RECURSIVE trimEnd(_)
trimEnd(s) ==
    IF s # <<>> /\ s[Len(s)] \in WhiteSpace
    THEN trimEnd(SubSeq(s, 1, Len(s) - 1))
    ELSE s

\* value.trim()
trim(s) == trimEnd(trimStart(s))

----------------------------------------------------------------------------
(* Credential resolver                                                     *)

\* credentials: trimToUndefined(value: unknown)
credTrimToUndefined_NoTrim(value) ==
    IF value = undefined THEN undefined
    ELSE IF Len(trim(value)) > 0 THEN value ELSE undefined

credTrimToUndefined(value) ==
    IF value = undefined
    THEN undefined
    ELSE LET trimmed == trim(value)
         IN  IF Len(trimmed) > 0 THEN trimmed ELSE undefined

\* a ?? b
Coalesce(a, b) == IF a # undefined THEN a ELSE b

\* const isRemoteMode = params.cfg.gateway?.mode === "remote"
isRemoteMode_UnlessLocal(p) == p.mode # "local"

isRemoteMode(p) == p.mode = "remote"

\* envToken / envPassword: the primary variable, else the legacy one
envTokenOf_LegacyFirst(p) ==
    Coalesce(credTrimToUndefined(p.CLAWDBOT_GATEWAY_TOKEN),
             credTrimToUndefined(p.OPENCLAW_GATEWAY_TOKEN))

envTokenOf(p) ==
    Coalesce(credTrimToUndefined(p.OPENCLAW_GATEWAY_TOKEN),
             credTrimToUndefined(p.CLAWDBOT_GATEWAY_TOKEN))

envPasswordOf(p) ==
    Coalesce(credTrimToUndefined(p.OPENCLAW_GATEWAY_PASSWORD),
             credTrimToUndefined(p.CLAWDBOT_GATEWAY_PASSWORD))

\* const remote = isRemoteMode ? params.cfg.gateway?.remote : undefined
remoteTokenOf(p) ==
    IF isRemoteMode(p) THEN credTrimToUndefined(p.remoteToken) ELSE undefined

remotePasswordOf(p) ==
    IF isRemoteMode(p) THEN credTrimToUndefined(p.remotePassword) ELSE undefined

localTokenOf(p) == credTrimToUndefined(p.localToken)

localPasswordOf(p) == credTrimToUndefined(p.localPassword)

\* const passwordPrecedence = params.remotePasswordPrecedence ?? "remote-first"
passwordPrecedenceOf(p) ==
    IF p.remotePasswordPrecedence = "unset"
    THEN "remote-first"
    ELSE p.remotePasswordPrecedence

resolveToken_EnvFirst(p) ==
    Coalesce(envTokenOf(p), Coalesce(remoteTokenOf(p), localTokenOf(p)))

resolveToken(p) ==
    IF isRemoteMode(p)
    THEN Coalesce(remoteTokenOf(p), Coalesce(envTokenOf(p), localTokenOf(p)))
    ELSE Coalesce(envTokenOf(p), localTokenOf(p))

resolvePassword_RemoteFirst(p) ==
    IF isRemoteMode(p)
    THEN Coalesce(remotePasswordOf(p),
                  Coalesce(envPasswordOf(p), localPasswordOf(p)))
    ELSE Coalesce(envPasswordOf(p), localPasswordOf(p))

resolvePassword(p) ==
    IF isRemoteMode(p)
    THEN IF passwordPrecedenceOf(p) = "env-first"
         THEN Coalesce(envPasswordOf(p),
                       Coalesce(remotePasswordOf(p), localPasswordOf(p)))
         ELSE Coalesce(remotePasswordOf(p),
                       Coalesce(envPasswordOf(p), localPasswordOf(p)))
    ELSE Coalesce(envPasswordOf(p), localPasswordOf(p))

\* the ambient ladder below the two early returns
resolveAmbient(p) ==
    [token |-> resolveToken(p), password |-> resolvePassword(p)]

\* if (explicitToken || explicitPassword) return {token, password}
resolveExplicit_FillFromAmbient(p) ==
    [token    |-> Coalesce(credTrimToUndefined(p.explicitToken), resolveToken(p)),
     password |-> Coalesce(credTrimToUndefined(p.explicitPassword),
                           resolvePassword(p))]

resolveExplicit(p) ==
    [token    |-> credTrimToUndefined(p.explicitToken),
     password |-> credTrimToUndefined(p.explicitPassword)]

\* if (trimToUndefined(params.urlOverride)) return {}
hasUrlOverride_Ignored(p) == FALSE

hasUrlOverride(p) == credTrimToUndefined(p.urlOverride) # undefined

EmptyCredentials == [token |-> undefined, password |-> undefined]

resolveGatewayCredentialsFromConfig(p) ==
    IF \/ credTrimToUndefined(p.explicitToken) # undefined
       \/ credTrimToUndefined(p.explicitPassword) # undefined
    THEN resolveExplicit(p)
    ELSE IF hasUrlOverride(p)
         THEN EmptyCredentials
         ELSE resolveAmbient(p)

\* The values a caller, the environment and the configuration may hold.
\* Every source has a value of its own, so that a result names its source.
Blank == <<" ">>

ExplicitTokens == {undefined, Blank, <<"X">>, <<" ", "X", " ">>}
ExplicitPasswords == {undefined, Blank, <<"Y">>, <<"Y", " ">>}
UrlOverrides == {undefined, Blank, <<"u">>}
Modes == {"unset", "local", "remote"}
Precedences == {"unset", "remote-first", "env-first"}
EnvTokens == {undefined, Blank, <<"e">>}
EnvLegacyTokens == {undefined, <<"c">>}
EnvPasswords == {undefined, Blank, <<"f">>}
EnvLegacyPasswords == {undefined, <<"d">>}
RemoteTokens == {undefined, Blank, <<"r">>}
RemotePasswords == {undefined, Blank, <<"s">>}
LocalTokens == {undefined, <<"l">>}
LocalPasswords == {undefined, <<"m">>}

NoParams ==
    [explicitToken |-> undefined, explicitPassword |-> undefined,
     urlOverride |-> undefined, mode |-> "unset",
     remotePasswordPrecedence |-> "unset",
     OPENCLAW_GATEWAY_TOKEN |-> undefined, CLAWDBOT_GATEWAY_TOKEN |-> undefined,
     OPENCLAW_GATEWAY_PASSWORD |-> undefined,
     CLAWDBOT_GATEWAY_PASSWORD |-> undefined,
     remoteToken |-> undefined, remotePassword |-> undefined,
     localToken |-> undefined, localPassword |-> undefined]

CrInit ==
    /\ crPc = "idle"
    /\ crParams = NoParams
    /\ crResult = EmptyCredentials

\* One call of the resolver by the outbound call path.
Resolve ==
    /\ crPc = "idle"
    /\ \E et \in ExplicitTokens, ep \in ExplicitPasswords, u \in UrlOverrides,
          m \in Modes, pr \in Precedences,
          envT \in EnvTokens, envLT \in EnvLegacyTokens,
          envP \in EnvPasswords, envLP \in EnvLegacyPasswords,
          rt \in RemoteTokens, rp \in RemotePasswords,
          lt \in LocalTokens, lp \in LocalPasswords :
          LET p == [explicitToken |-> et, explicitPassword |-> ep,
                    urlOverride |-> u, mode |-> m,
                    remotePasswordPrecedence |-> pr,
                    OPENCLAW_GATEWAY_TOKEN |-> envT,
                    CLAWDBOT_GATEWAY_TOKEN |-> envLT,
                    OPENCLAW_GATEWAY_PASSWORD |-> envP,
                    CLAWDBOT_GATEWAY_PASSWORD |-> envLP,
                    remoteToken |-> rt, remotePassword |-> rp,
                    localToken |-> lt, localPassword |-> lp]
          IN  /\ crParams' = p
              /\ crResult' = resolveGatewayCredentialsFromConfig(p)
    /\ crPc' = "returned"
    /\ UNCHANGED gwVars

----------------------------------------------------------------------------
(* Connection authorization: values                                        *)

\* An absent object (a null connectAuth, no sharedConnectAuth, no result yet).
undefinedObject == [undefined |-> TRUE]

\* An absent authResult.method.
undefinedMethod == "undefined"

AUTH_RATE_LIMIT_SCOPE_SHARED_SECRET == "shared-secret"

AUTH_RATE_LIMIT_SCOPE_DEVICE_TOKEN == "device-token"

RateLimitScopes ==
    {AUTH_RATE_LIMIT_SCOPE_SHARED_SECRET, AUTH_RATE_LIMIT_SCOPE_DEVICE_TOKEN}

\* The handshakes that may be in flight at once, and the addresses they come from.
Handshakes == {"h1", "h2"}

ClientIps == {"ip1", "ip2"}

\* Failed attempts that lock a key out, and how long the lockout lasts.
MaxFailures == 2

LockoutMs == 1

\* GatewayAuthResult
AuthOk(method) ==
    [ok |-> TRUE, method |-> method, reason |-> "none",
     rateLimited |-> FALSE, retryAfterMs |-> 0]

AuthFail(reason) ==
    [ok |-> FALSE, method |-> undefinedMethod, reason |-> reason,
     rateLimited |-> FALSE, retryAfterMs |-> 0]

AuthRateLimited(retryAfterMs) ==
    [ok |-> FALSE, method |-> undefinedMethod, reason |-> "rate_limited",
     rateLimited |-> TRUE, retryAfterMs |-> retryAfterMs]

----------------------------------------------------------------------------
(* The rate limiter (auth-rate-limit), keyed by (ip, scope)                *)

NoFailures == [failures |-> 0, lockedFor |-> 0]

\* RateLimiter.check(ip, scope) -> {allowed, retryAfterMs}
check(lim, ip, scope) ==
    [allowed |-> lim[<<ip, scope>>].lockedFor = 0,
     retryAfterMs |-> lim[<<ip, scope>>].lockedFor]

\* RateLimiter.reset(ip, scope)
reset(lim, ip, scope) == [lim EXCEPT ![<<ip, scope>>] = NoFailures]

\* RateLimiter.recordFailure(ip, scope): one more failure; the key locks at
\* MaxFailures.
recordFailure(lim, ip, scope) ==
    LET e == lim[<<ip, scope>>]
    IN  IF e.lockedFor > 0 THEN lim
        ELSE IF e.failures + 1 >= MaxFailures
        THEN [lim EXCEPT ![<<ip, scope>>] =
                 [failures |-> MaxFailures, lockedFor |-> LockoutMs]]
        ELSE [lim EXCEPT ![<<ip, scope>>] =
                 [failures |-> e.failures + 1, lockedFor |-> 0]]

----------------------------------------------------------------------------
(* The authorization strategies (auth)                                     *)

\* What a request context can be recognised as, apart from its credentials.
RequestKinds == {"plain", "private-network"}

\* The verification both strategies share: the private-network bypass when the
\* policy allows it, then the shared secret of the policy's mode.
verifyConnect(auth, connectAuth, req) ==
    IF auth.allowTailscale /\ req = "private-network" THEN AuthOk("bypass")
    ELSE IF connectAuth = undefinedObject THEN AuthFail("missing_auth")
    ELSE IF auth.mode = "token"
    THEN IF connectAuth.token = undefined THEN AuthFail("missing_auth")
         ELSE IF connectAuth.token = auth.token THEN AuthOk("token")
         ELSE AuthFail("invalid_credentials")
    ELSE IF connectAuth.password = undefined THEN AuthFail("missing_auth")
         ELSE IF connectAuth.password = auth.password THEN AuthOk("password")
         ELSE AuthFail("invalid_credentials")

\* authorizeWsControlUiGatewayConnect: with a rate limiter it refuses a locked
\* key, counts a failed verification and clears the key on a token or password
\* success. Returns the verdict, the limiter and the limiter calls it made
\* ("primary.check", ...).
authorizeWsControlUiGatewayConnect(auth, connectAuth, req, withLimiter, lim, ip, scope) ==
    LET verdict == verifyConnect(auth, connectAuth, req)
    IN  IF ~withLimiter
        THEN [result |-> verdict, limiter |-> lim, ops |-> <<>>]
        ELSE IF ~check(lim, ip, scope).allowed
        THEN [result |-> AuthRateLimited(check(lim, ip, scope).retryAfterMs),
              limiter |-> lim, ops |-> <<"primary.check">>]
        ELSE IF ~verdict.ok
        THEN [result |-> verdict, limiter |-> recordFailure(lim, ip, scope),
              ops |-> <<"primary.check", "primary.recordFailure">>]
        ELSE IF verdict.method \in {"token", "password"}
        THEN [result |-> verdict, limiter |-> reset(lim, ip, scope),
              ops |-> <<"primary.check", "primary.reset">>]
        ELSE [result |-> verdict, limiter |-> lim, ops |-> <<"primary.check">>]

\* authorizeHttpGatewayConnect: the same verification and, when it is given a
\* rate limiter, the same limiter calls ("probe.check", ...).
authorizeHttpGatewayConnect(auth, connectAuth, req, withLimiter, lim, ip, scope) ==
    LET verdict == verifyConnect(auth, connectAuth, req)
    IN  IF ~withLimiter
        THEN [result |-> verdict, limiter |-> lim, ops |-> <<>>]
        ELSE IF ~check(lim, ip, scope).allowed
        THEN [result |-> AuthRateLimited(check(lim, ip, scope).retryAfterMs),
              limiter |-> lim, ops |-> <<"probe.check">>]
        ELSE IF ~verdict.ok
        THEN [result |-> verdict, limiter |-> recordFailure(lim, ip, scope),
              ops |-> <<"probe.check", "probe.recordFailure">>]
        ELSE IF verdict.method \in {"token", "password"}
        THEN [result |-> verdict, limiter |-> reset(lim, ip, scope),
              ops |-> <<"probe.check", "probe.reset">>]
        ELSE [result |-> verdict, limiter |-> lim, ops |-> <<"probe.check">>]

----------------------------------------------------------------------------
(* resolveConnectAuthState                                                 *)

\* trimToUndefined(value: string | undefined)
trimToUndefined_KeepBlank(value) ==
    IF value = undefined \/ value = <<>> THEN undefined ELSE value

trimToUndefined(value) ==
    IF value = undefined \/ value = <<>>
    THEN undefined
    ELSE LET trimmed == trim(value)
         IN  IF Len(trimmed) > 0 THEN trimmed ELSE undefined

resolveSharedConnectAuth(connectAuth) ==
    LET token    == trimToUndefined(connectAuth.token)
        password == trimToUndefined(connectAuth.password)
    IN  IF token = undefined /\ password = undefined
        THEN undefinedObject
        ELSE [token |-> token, password |-> password]

resolveDeviceTokenCandidate(connectAuth) ==
    LET explicitDeviceToken == trimToUndefined(connectAuth.deviceToken)
    IN  IF explicitDeviceToken # undefined
        THEN explicitDeviceToken
        ELSE trimToUndefined(connectAuth.token)

\* const deviceTokenCandidate = params.hasDeviceIdentity ? ... : undefined
deviceTokenCandidateOf_Always(connectAuth, hasDeviceIdentity) ==
    resolveDeviceTokenCandidate(connectAuth)

deviceTokenCandidateOf(connectAuth, hasDeviceIdentity) ==
    IF hasDeviceIdentity THEN resolveDeviceTokenCandidate(connectAuth) ELSE undefined

\* rateLimiter: hasDeviceTokenCandidate ? undefined : params.rateLimiter
primaryRateLimiterArg_Always(hasCandidate, paramsRateLimiter) == paramsRateLimiter

primaryRateLimiterArg(hasCandidate, paramsRateLimiter) ==
    IF hasCandidate THEN FALSE ELSE paramsRateLimiter

\* The condition of the secondary shared-secret rate check.
needsSharedRateCheck_Never(hasCandidate, authResult, paramsRateLimiter) == FALSE

needsSharedRateCheck_AnyMethod(hasCandidate, authResult, paramsRateLimiter) ==
    hasCandidate /\ authResult.ok /\ paramsRateLimiter

needsSharedRateCheck_AnyVerdict(hasCandidate, authResult, paramsRateLimiter) ==
    hasCandidate /\ paramsRateLimiter

needsSharedRateCheck(hasCandidate, authResult, paramsRateLimiter) ==
    /\ hasCandidate
    /\ authResult.ok
    /\ paramsRateLimiter
    /\ authResult.method \in {"token", "password"}

\* The secondary check of the shared-secret scope and what follows it: the
\* verdict, the limiter, the check's result and the limiter calls made.
sharedRateGate_NoReset(authResult, lim, ip) ==
    LET sharedRateCheck == check(lim, ip, AUTH_RATE_LIMIT_SCOPE_SHARED_SECRET)
    IN  IF ~sharedRateCheck.allowed
        THEN [authResult |-> AuthRateLimited(sharedRateCheck.retryAfterMs),
              limiter |-> lim, sharedRateCheck |-> sharedRateCheck,
              ops |-> <<"check">>]
        ELSE [authResult |-> authResult, limiter |-> lim,
              sharedRateCheck |-> sharedRateCheck, ops |-> <<"check">>]

sharedRateGate_KeepOk(authResult, lim, ip) ==
    LET sharedRateCheck == check(lim, ip, AUTH_RATE_LIMIT_SCOPE_SHARED_SECRET)
    IN  IF ~sharedRateCheck.allowed
        THEN [authResult |-> authResult, limiter |-> lim,
              sharedRateCheck |-> sharedRateCheck, ops |-> <<"check">>]
        ELSE [authResult |-> authResult,
              limiter |-> reset(lim, ip, AUTH_RATE_LIMIT_SCOPE_SHARED_SECRET),
              sharedRateCheck |-> sharedRateCheck, ops |-> <<"check", "reset">>]

sharedRateGate_AnyIp(authResult, lim, ip) ==
    LET locked == {i \in ClientIps :
                      ~check(lim, i, AUTH_RATE_LIMIT_SCOPE_SHARED_SECRET).allowed}
        sharedRateCheck ==
            IF locked = {}
            THEN check(lim, ip, AUTH_RATE_LIMIT_SCOPE_SHARED_SECRET)
            ELSE check(lim, CHOOSE i \in locked : TRUE,
                       AUTH_RATE_LIMIT_SCOPE_SHARED_SECRET)
    IN  IF ~sharedRateCheck.allowed
        THEN [authResult |-> AuthRateLimited(sharedRateCheck.retryAfterMs),
              limiter |-> lim, sharedRateCheck |-> sharedRateCheck,
              ops |-> <<"check">>]
        ELSE [authResult |-> authResult,
              limiter |-> reset(lim, ip, AUTH_RATE_LIMIT_SCOPE_SHARED_SECRET),
              sharedRateCheck |-> sharedRateCheck, ops |-> <<"check", "reset">>]

sharedRateGate_ResetBeforeCheck(authResult, lim, ip) ==
    LET cleared == reset(lim, ip, AUTH_RATE_LIMIT_SCOPE_SHARED_SECRET)
        sharedRateCheck == check(cleared, ip, AUTH_RATE_LIMIT_SCOPE_SHARED_SECRET)
    IN  IF ~sharedRateCheck.allowed
        THEN [authResult |-> AuthRateLimited(sharedRateCheck.retryAfterMs),
              limiter |-> cleared, sharedRateCheck |-> sharedRateCheck,
              ops |-> <<"reset", "check">>]
        ELSE [authResult |-> authResult, limiter |-> cleared,
              sharedRateCheck |-> sharedRateCheck, ops |-> <<"reset", "check">>]

sharedRateGate(authResult, lim, ip) ==
    LET sharedRateCheck == check(lim, ip, AUTH_RATE_LIMIT_SCOPE_SHARED_SECRET)
    IN  IF ~sharedRateCheck.allowed
        THEN [authResult |-> AuthRateLimited(sharedRateCheck.retryAfterMs),
              limiter |-> lim, sharedRateCheck |-> sharedRateCheck,
              ops |-> <<"check">>]
        ELSE [authResult |-> authResult,
              limiter |-> reset(lim, ip, AUTH_RATE_LIMIT_SCOPE_SHARED_SECRET),
              sharedRateCheck |-> sharedRateCheck, ops |-> <<"check", "reset">>]

\* The probe call names no rateLimiter.
probeRateLimiterArg_Params(paramsRateLimiter) == paramsRateLimiter

probeRateLimiterArg(paramsRateLimiter) == FALSE

\* auth: { ...params.resolvedAuth, allowTailscale: false }
probeAuth_KeepTailscale(auth) == auth

probeAuth(auth) == [auth EXCEPT !.allowTailscale = FALSE]

\* sharedAuthResult?.ok === true && (method === "token" || method === "password")
sharedAuthOkOf_AnyMethod(sharedAuthResult) ==
    sharedAuthResult # undefinedObject /\ sharedAuthResult.ok

sharedAuthOkOf(sharedAuthResult) ==
    /\ sharedAuthResult # undefinedObject
    /\ sharedAuthResult.ok
    /\ sharedAuthResult.method \in {"token", "password"}

\* The ConnectAuthState returned.
connectAuthState(auth, authResult, sharedAuthResult, sharedConnectAuth, deviceTokenCandidate) ==
    [authResult |-> authResult,
     authOk |-> authResult.ok,
     authMethod |->
         IF authResult.method # undefinedMethod THEN authResult.method
         ELSE IF auth.mode = "password" THEN "password" ELSE "token",
     sharedAuthOk |-> sharedAuthOkOf(sharedAuthResult),
     sharedAuthProvided |-> sharedConnectAuth # undefinedObject,
     deviceTokenCandidate |-> deviceTokenCandidate]

\* The server's policy: token or password mode, private-network bypass allowed.
Secret == <<"s">>

ResolvedAuths ==
    {[mode |-> m, token |-> Secret, password |-> Secret, allowTailscale |-> TRUE] :
        m \in {"token", "password"}}

\* The handshake payloads presented: at most one shared secret, in either
\* field, right or wrong, with or without white space around it.
HandshakeSecrets == {undefined, Blank, <<" ", "s">>, <<"x">>}

HandshakeDeviceTokens == {undefined, <<"d", " ">>}

ConnectAuths ==
    {ca \in [token : HandshakeSecrets, deviceToken : HandshakeDeviceTokens,
             password : HandshakeSecrets] :
        ca.token \in {undefined, Blank} \/ ca.password \in {undefined, Blank}}

\* The payloads drawn for handshake h. Where the payload is kept every one is
\* drawn; where only the locals are kept, a blank field gives the locals of
\* the absent one and is not drawn besides it.
ConnectAuthsOf(h) ==
    IF h \in observed
    THEN ConnectAuths
    ELSE {ca \in ConnectAuths : ca.token # Blank /\ ca.password # Blank}

NoCheck == [performed |-> FALSE]

IdleHandshake ==
    [pc |-> "idle",
     connectAuth |-> undefinedObject,
     hasDeviceIdentity |-> FALSE,
     sharedConnectAuth |-> undefinedObject,
     deviceTokenCandidate |-> undefined,
     req |-> "plain",
     clientIp |-> "ip1",
     primaryRateLimiter |-> FALSE,
     primaryResult |-> undefinedObject,
     authResult |-> undefinedObject,
     sharedRateCheck |-> NoCheck,
     sharedAuthResult |-> undefinedObject,
     ops |-> <<>>,
     state |-> undefinedObject]

hasDeviceTokenCandidate(h) == hs[h].deviceTokenCandidate # undefined

GwInit ==
    /\ resolvedAuth \in ResolvedAuths
    /\ rateLimiter \in BOOLEAN
    /\ limiter = [k \in ClientIps \X RateLimitScopes |-> NoFailures]
    /\ hs = [h \in Handshakes |-> IdleHandshake]
    /\ observed = {}

\* Lines 58-84: a handshake arrives; the locals are computed and the primary
\* strategy is called, which suspends the handshake.
Begin(h) ==
    /\ hs[h].pc = "idle"
    /\ \E connectAuth \in ConnectAuthsOf(h), hasDeviceIdentity \in BOOLEAN,
          req \in RequestKinds, clientIp \in ClientIps :
          hs' = [hs EXCEPT ![h] =
                    [IdleHandshake EXCEPT
                        !.pc = "awaitPrimary",
                        !.connectAuth =
                            IF h \in observed THEN connectAuth ELSE undefinedObject,
                        !.hasDeviceIdentity = h \in observed /\ hasDeviceIdentity,
                        !.sharedConnectAuth = resolveSharedConnectAuth(connectAuth),
                        !.deviceTokenCandidate =
                            deviceTokenCandidateOf(connectAuth, hasDeviceIdentity),
                        !.req = req,
                        !.clientIp = clientIp,
                        !.primaryRateLimiter =
                            primaryRateLimiterArg(
                                deviceTokenCandidateOf(connectAuth, hasDeviceIdentity)
                                    # undefined,
                                rateLimiter)]]
    /\ UNCHANGED <<resolvedAuth, rateLimiter, limiter, observed, crVars>>

\* Lines 75-106 for handshake h against the limiter lim: the verdict of the
\* primary strategy (with the limiter calls it made, when it was given the
\* limiter) and the secondary rate check when it is due.
primaryAndGate(h, lim) ==
    LET out == authorizeWsControlUiGatewayConnect(
                   resolvedAuth, hs[h].sharedConnectAuth, hs[h].req,
                   hs[h].primaryRateLimiter, lim, hs[h].clientIp,
                   AUTH_RATE_LIMIT_SCOPE_SHARED_SECRET)
    IN  IF needsSharedRateCheck(hasDeviceTokenCandidate(h), out.result, rateLimiter)
        THEN LET g == sharedRateGate(out.result, out.limiter, hs[h].clientIp)
             IN  [primaryResult |-> out.result,
                  authResult |-> g.authResult,
                  limiter |-> g.limiter,
                  sharedRateCheck |->
                      [performed |-> TRUE,
                       allowed |-> g.sharedRateCheck.allowed,
                       retryAfterMs |-> g.sharedRateCheck.retryAfterMs],
                  ops |-> out.ops \o g.ops]
        ELSE [primaryResult |-> out.result,
              authResult |-> out.result,
              limiter |-> out.limiter,
              sharedRateCheck |-> NoCheck,
              ops |-> out.ops]

\* Lines 75-119: the primary strategy returns its verdict; the handshake
\* resumes, makes the secondary rate check when it is due, and either calls
\* the probe, which suspends it again, or (no shared credential) returns.
PrimaryReturns(h) ==
    /\ hs[h].pc = "awaitPrimary"
    /\ LET r == primaryAndGate(h, limiter)
       IN  /\ limiter' = r.limiter
           /\ IF hs[h].sharedConnectAuth # undefinedObject
              THEN hs' = [hs EXCEPT ![h].pc = "awaitProbe",
                                    ![h].primaryResult = r.primaryResult,
                                    ![h].authResult = r.authResult,
                                    ![h].sharedRateCheck = r.sharedRateCheck,
                                    ![h].ops = r.ops]
              ELSE hs' = [hs EXCEPT ![h].pc = "done",
                                    ![h].primaryResult = r.primaryResult,
                                    ![h].authResult = r.authResult,
                                    ![h].sharedRateCheck = r.sharedRateCheck,
                                    ![h].ops = r.ops,
                                    ![h].state =
                                        connectAuthState(
                                            resolvedAuth, r.authResult,
                                            undefinedObject,
                                            hs[h].sharedConnectAuth,
                                            hs[h].deviceTokenCandidate)]
    /\ UNCHANGED <<resolvedAuth, rateLimiter, observed, crVars>>

\* Lines 108-133: the probe returns; sharedAuthOk is computed and the
\* ConnectAuthState is returned.
Finish(h) ==
    /\ hs[h].pc = "awaitProbe"
    /\ LET out == authorizeHttpGatewayConnect(
                      probeAuth(resolvedAuth), hs[h].sharedConnectAuth,
                      hs[h].req, probeRateLimiterArg(rateLimiter), limiter,
                      hs[h].clientIp, AUTH_RATE_LIMIT_SCOPE_SHARED_SECRET)
       IN  /\ limiter' = out.limiter
           /\ hs' = [hs EXCEPT ![h].pc = "done",
                                ![h].sharedAuthResult = out.result,
                                ![h].ops = hs[h].ops \o out.ops,
                                ![h].state =
                                    connectAuthState(
                                        resolvedAuth, hs[h].authResult,
                                        out.result, hs[h].sharedConnectAuth,
                                        hs[h].deviceTokenCandidate)]
    /\ UNCHANGED <<resolvedAuth, rateLimiter, observed, crVars>>

\* Lines 75-84 and 108-119: a strategy raises a fault instead of returning a
\* verdict. Neither await is inside a try: the promise of
\* resolveConnectAuthState is rejected, its locals are dropped and no
\* ConnectAuthState is returned.
PrimaryThrows(h) ==
    /\ hs[h].pc = "awaitPrimary"
    /\ hs' = [hs EXCEPT ![h] = [IdleHandshake EXCEPT !.pc = "threw"]]
    /\ UNCHANGED <<resolvedAuth, rateLimiter, limiter, observed, crVars>>

ProbeThrows(h) ==
    /\ hs[h].pc = "awaitProbe"
    /\ hs' = [hs EXCEPT ![h] = [IdleHandshake EXCEPT !.pc = "threw"]]
    /\ UNCHANGED <<resolvedAuth, rateLimiter, limiter, observed, crVars>>

\* The connection acceptor has taken the ConnectAuthState, or the fault: the
\* handshake is over, and another one may arrive.
Accept(h) ==
    /\ hs[h].pc \in {"done", "threw"}
    /\ hs' = [hs EXCEPT ![h] = IdleHandshake]
    /\ UNCHANGED <<resolvedAuth, rateLimiter, limiter, observed, crVars>>

\* The lockout of a key ends: the limiter's lazy expiry clears the key.
LockoutExpires(k) ==
    /\ limiter[k].lockedFor > 0
    /\ limiter' = [limiter EXCEPT ![k] = NoFailures]
    /\ UNCHANGED <<resolvedAuth, rateLimiter, hs, observed, crVars>>

GwNext ==
    \/ \E h \in Handshakes : Begin(h)
    \/ \E h \in Handshakes : PrimaryReturns(h)
    \/ \E h \in Handshakes : Finish(h)
    \/ \E h \in Handshakes : PrimaryThrows(h)
    \/ \E h \in Handshakes : ProbeThrows(h)
    \/ \E h \in Handshakes : Accept(h)
    \/ \E k \in ClientIps \X RateLimitScopes : LockoutExpires(k)

Init == CrInit /\ GwInit

Next == GwNext

\* Concurrent handshakes against the shared rate limiter.
Spec == Init /\ [][Next]_vars

\* The resolver is about to be called; no handshake is in flight.
InitCred ==
    /\ CrInit
    /\ resolvedAuth = [mode |-> "token", token |-> Secret, password |-> Secret,
                       allowTailscale |-> TRUE]
    /\ rateLimiter = TRUE
    /\ limiter = [k \in ClientIps \X RateLimitScopes |-> NoFailures]
    /\ hs = [h \in Handshakes |-> IdleHandshake]
    /\ observed = {}

CrNext == Resolve

\* The credential resolver called on every input.
SpecCred == InitCred /\ [][CrNext]_vars

\* One handshake after the other, each kept with the connectAuth and
\* hasDeviceIdentity it was called with.
InitSolo ==
    /\ CrInit
    /\ resolvedAuth \in ResolvedAuths
    /\ rateLimiter \in BOOLEAN
    /\ limiter = [k \in ClientIps \X RateLimitScopes |-> NoFailures]
    /\ hs = [h \in Handshakes |-> IdleHandshake]
    /\ observed = {"h1"}

SoloNext ==
    \/ \E h \in observed : Begin(h)
    \/ \E h \in observed : PrimaryReturns(h)
    \/ \E h \in observed : Finish(h)
    \/ \E h \in observed : PrimaryThrows(h)
    \/ \E h \in observed : ProbeThrows(h)
    \/ \E h \in observed : Accept(h)
    \/ \E k \in ClientIps \X RateLimitScopes : LockoutExpires(k)

SpecSolo == InitSolo /\ [][SoloNext]_vars

\* Both layers, each on its own: the client that resolves its credentials, or
\* the server that takes the handshakes of a client which resolved none.
InitLayers ==
    \/ /\ crPc = "returned"
       /\ crParams = NoParams
       /\ crResult = EmptyCredentials
       /\ resolvedAuth \in ResolvedAuths
       /\ rateLimiter \in BOOLEAN
       /\ limiter = [k \in ClientIps \X RateLimitScopes |-> NoFailures]
       /\ hs = [h \in Handshakes |-> IdleHandshake]
       /\ observed = {"h1"}
    \/ InitCred

LayersNext == SoloNext \/ Resolve

SpecLayers == InitLayers /\ [][LayersNext]_vars

----------------------------------------------------------------------------
(* What the claims speak of, stated on the characters of the raw values    *)
(* and not through the resolver's own helpers.                             *)

\* v is a string with a character that is not white space.
Present(v) == v # undefined /\ \E i \in 1..Len(v) : v[i] \notin WhiteSpace

\* t is s without its leading and trailing white space.
IsTrimOf(t, s) ==
    \E i \in 1..Len(s), j \in 1..Len(s) :
        /\ i <= j
        /\ t = SubSeq(s, i, j)
        /\ s[i] \notin WhiteSpace
        /\ s[j] \notin WhiteSpace
        /\ \A k \in 1..Len(s) : (k < i \/ k > j) => s[k] \in WhiteSpace

\* The value a raw field stands for: absent, or the string without its
\* surrounding white space.
Stripped(v) ==
    IF Present(v)
    THEN CHOOSE t \in {SubSeq(v, i, j) : i \in 1..Len(v), j \in 1..Len(v)} :
             IsTrimOf(t, v)
    ELSE undefined

\* The first present value of a ladder of raw fields, absent if none is.
RECURSIVE FirstPresent(_)
FirstPresent(ladder) ==
    IF ladder = <<>> THEN undefined
    ELSE IF Present(Head(ladder)) THEN Stripped(Head(ladder))
    ELSE FirstPresent(Tail(ladder))

ExplicitGiven == Present(crParams.explicitToken) \/ Present(crParams.explicitPassword)

UrlGiven == Present(crParams.urlOverride)

\* C7: when explicit.token or explicit.password is present after trim, the
\* result is the two explicit fields and nothing else: a field absent or blank
\* in explicit is absent in the result, never filled from environment, remote
\* config or local config, whatever mode, urlOverride and precedence are.
C7_ExplicitWinsOutright ==
    (crPc = "returned" /\ ExplicitGiven) =>
        /\ IF Present(crParams.explicitToken)
           THEN IsTrimOf(crResult.token, crParams.explicitToken)
           ELSE crResult.token = undefined
        /\ IF Present(crParams.explicitPassword)
           THEN IsTrimOf(crResult.password, crParams.explicitPassword)
           ELSE crResult.password = undefined

\* An explicit token alone, with a url override and every ambient password
\* source set in remote mode: the password stays absent.
C7_Witness ==
    /\ crPc = "returned"
    /\ crParams.explicitToken = <<"X">>
    /\ crParams.explicitPassword = Blank
    /\ crParams.urlOverride = <<"u">>
    /\ crParams.mode = "remote"
    /\ crParams.OPENCLAW_GATEWAY_PASSWORD = <<"f">>
    /\ crParams.remotePassword = <<"s">>
    /\ crParams.localPassword = <<"m">>
    /\ crResult = [token |-> <<"X">>, password |-> undefined]

\* C8 as stated: each non-blank explicit field is in the result as the very
\* string the caller supplied.
C8_Verbatim ==
    (crPc = "returned" /\ ExplicitGiven) =>
        /\ Present(crParams.explicitToken) =>
               crResult.token = crParams.explicitToken
        /\ Present(crParams.explicitPassword) =>
               crResult.password = crParams.explicitPassword

\* C8 amended: each non-blank explicit field is in the result as the string
\* the caller supplied without its leading and trailing white space, which is
\* the very string exactly when it has none.
C8_ExplicitTrimmed ==
    (crPc = "returned" /\ ExplicitGiven) =>
        /\ Present(crParams.explicitToken) =>
               /\ crResult.token = Stripped(crParams.explicitToken)
               /\ (crResult.token = crParams.explicitToken) <=>
                      /\ Head(crParams.explicitToken) \notin WhiteSpace
                      /\ crParams.explicitToken[Len(crParams.explicitToken)]
                             \notin WhiteSpace
        /\ Present(crParams.explicitPassword) =>
               /\ crResult.password = Stripped(crParams.explicitPassword)
               /\ (crResult.password = crParams.explicitPassword) <=>
                      /\ Head(crParams.explicitPassword) \notin WhiteSpace
                      /\ crParams.explicitPassword[Len(crParams.explicitPassword)]
                             \notin WhiteSpace

\* Explicit fields with white space around them come back without it.
C8_Witness ==
    /\ crPc = "returned"
    /\ crParams.explicitToken = <<" ", "X", " ">>
    /\ crParams.explicitPassword = <<"Y", " ">>
    /\ crResult = [token |-> <<"X">>, password |-> <<"Y">>]

\* C9: with explicit credentials absent (both fields absent or blank) and a
\* present urlOverride the result is the empty credential pair, in either mode
\* and under either password precedence.
C9_UrlOverrideEmpty ==
    (crPc = "returned" /\ ~ExplicitGiven /\ UrlGiven) =>
        /\ crResult.token = undefined
        /\ crResult.password = undefined

\* A url override with blank explicit fields and every ambient source set.
C9_Witness ==
    /\ crPc = "returned"
    /\ crParams.explicitToken = Blank
    /\ crParams.explicitPassword = undefined
    /\ crParams.urlOverride = <<"u">>
    /\ crParams.mode = "remote"
    /\ crParams.remotePasswordPrecedence = "env-first"
    /\ crParams.OPENCLAW_GATEWAY_TOKEN = <<"e">>
    /\ crParams.OPENCLAW_GATEWAY_PASSWORD = <<"f">>
    /\ crParams.remoteToken = <<"r">>
    /\ crParams.remotePassword = <<"s">>
    /\ crParams.localToken = <<"l">>
    /\ crParams.localPassword = <<"m">>
    /\ crResult = EmptyCredentials

\* C10: in remote mode with the default password precedence and no explicit
\* credentials or urlOverride, token and password are each the first present
\* value of remote config, environment, local config, and absent only when all
\* three are absent.
C10_RemoteLadder ==
    (/\ crPc = "returned"
     /\ ~ExplicitGiven
     /\ ~UrlGiven
     /\ crParams.mode = "remote"
     /\ crParams.remotePasswordPrecedence \in {"unset", "remote-first"}) =>
        /\ crResult.token =
               FirstPresent(<<crParams.remoteToken,
                              crParams.OPENCLAW_GATEWAY_TOKEN,
                              crParams.CLAWDBOT_GATEWAY_TOKEN,
                              crParams.localToken>>)
        /\ crResult.password =
               FirstPresent(<<crParams.remotePassword,
                              crParams.OPENCLAW_GATEWAY_PASSWORD,
                              crParams.CLAWDBOT_GATEWAY_PASSWORD,
                              crParams.localPassword>>)
        /\ (crResult.token = undefined) <=>
               /\ ~Present(crParams.remoteToken)
               /\ ~Present(crParams.OPENCLAW_GATEWAY_TOKEN)
               /\ ~Present(crParams.CLAWDBOT_GATEWAY_TOKEN)
               /\ ~Present(crParams.localToken)

\* Remote mode: the token, blank in remote config, falls through to the
\* environment while the password is taken from remote config.
C10_Witness ==
    /\ crPc = "returned"
    /\ ~ExplicitGiven
    /\ ~UrlGiven
    /\ crParams.mode = "remote"
    /\ crParams.remotePasswordPrecedence = "unset"
    /\ crParams.remoteToken = Blank
    /\ crParams.OPENCLAW_GATEWAY_TOKEN = <<"e">>
    /\ crParams.localToken = <<"l">>
    /\ crParams.remotePassword = <<"s">>
    /\ crParams.OPENCLAW_GATEWAY_PASSWORD = <<"f">>
    /\ crResult = [token |-> <<"e">>, password |-> <<"s">>]

----------------------------------------------------------------------------
(* Claims on resolveConnectAuthState                                       *)

SharedSecretKey(ip) == <<ip, AUTH_RATE_LIMIT_SCOPE_SHARED_SECRET>>

\* RateLimiter.check(ip, shared-secret) is disallowed.
Disallowed(ip) == ~check(limiter, ip, AUTH_RATE_LIMIT_SCOPE_SHARED_SECRET).allowed

\* A verdict that is ok with method token or password.
SecretOk(r) == r # undefinedObject /\ r.ok /\ r.method \in {"token", "password"}

InSeq(x, seq) == \E i \in 1..Len(seq) : seq[i] = x

\* The step in which handshake h resumes from the primary strategy call.
Resumes(h) == hs[h].pc = "awaitPrimary" /\ hs'[h].pc \in {"awaitProbe", "done"}

\* The step in which handshake h returns its ConnectAuthState.
Returns(h) == hs[h].pc # "done" /\ hs'[h].pc = "done"

\* C1 as stated: with a rate limiter supplied, no handshake from an IP ends
\* with authOk = true and method token or password while check(ip,
\* shared-secret) is disallowed for that IP.
C1_NoSecretOkEndsWhileDisallowed ==
    [][\A h \in Handshakes :
          (rateLimiter /\ Returns(h) /\ Disallowed(hs[h].clientIp)) =>
              ~(hs'[h].state.authOk /\ SecretOk(hs'[h].state.authResult))]_vars

\* C1 amended: with a rate limiter supplied, a handshake that resumes from
\* the primary strategy call while check(ip, shared-secret) is disallowed for
\* its IP gets a verdict that is not ok by token or password, with or without
\* a device-token candidate, and every handshake returns the verdict it got
\* then, unchanged by the probe.
C1_NoSecretOkDecidedWhileDisallowed ==
    [][\A h \in Handshakes :
          /\ (rateLimiter /\ Resumes(h) /\ Disallowed(hs[h].clientIp)) =>
                 ~SecretOk(hs'[h].authResult)
          /\ Returns(h) =>
                 /\ hs'[h].state.authResult = hs'[h].authResult
                 /\ hs'[h].state.authOk = hs'[h].authResult.ok
                 /\ hs[h].pc = "awaitProbe" =>
                        hs'[h].authResult = hs[h].authResult]_vars

\* A right shared secret presented with a device-token candidate from a locked
\* IP has been turned down and the IP is still locked.
C1_Witness ==
    \E h \in Handshakes :
        /\ rateLimiter
        /\ hs[h].pc = "done"
        /\ hs[h].deviceTokenCandidate # undefined
        /\ hs[h].sharedConnectAuth # undefinedObject
        /\ hs[h].sharedConnectAuth.token = Secret
        /\ resolvedAuth.mode = "token"
        /\ ~hs[h].state.authOk
        /\ hs[h].state.authResult.reason = "rate_limited"
        /\ Disallowed(hs[h].clientIp)

\* C2: with a device-token candidate, a rate limiter supplied and a primary
\* result ok by token or password, the shared-secret scope of the client IP is
\* checked; when the check is disallowed the authResult is Fail rate_limited
\* with the check's retryAfterMs and authOk is false.
C2_SecondaryCheckDowngrades ==
    [][\A h \in Handshakes :
          /\ (/\ Resumes(h)
              /\ hs[h].deviceTokenCandidate # undefined
              /\ rateLimiter
              /\ SecretOk(hs'[h].primaryResult)) =>
                 /\ hs'[h].sharedRateCheck.performed
                 /\ hs'[h].sharedRateCheck.allowed = ~Disallowed(hs[h].clientIp)
                 /\ Disallowed(hs[h].clientIp) =>
                        /\ hs'[h].authResult.ok = FALSE
                        /\ hs'[h].authResult.reason = "rate_limited"
                        /\ hs'[h].authResult.rateLimited
                        /\ hs'[h].authResult.retryAfterMs =
                               limiter[SharedSecretKey(hs[h].clientIp)].lockedFor
                        /\ hs'[h].authResult.retryAfterMs > 0
          /\ (/\ Returns(h)
              /\ hs'[h].sharedRateCheck.performed
              /\ ~hs'[h].sharedRateCheck.allowed) =>
                 /\ SecretOk(hs'[h].primaryResult)
                 /\ hs'[h].state.authOk = FALSE
                 /\ hs'[h].state.authResult.reason = "rate_limited"
                 /\ hs'[h].state.authResult.retryAfterMs =
                        hs'[h].sharedRateCheck.retryAfterMs]_vars

\* A primary result ok by password was downgraded by the secondary check.
C2_Witness ==
    \E h \in Handshakes :
        /\ hs[h].pc = "done"
        /\ hs[h].deviceTokenCandidate # undefined
        /\ hs[h].primaryResult = AuthOk("password")
        /\ hs[h].sharedRateCheck.performed
        /\ ~hs[h].sharedRateCheck.allowed
        /\ hs[h].authResult = AuthRateLimited(LockoutMs)
        /\ hs[h].state.authOk = FALSE

\* C3: the primary strategy receives the caller's rate limiter exactly when
\* no device-token candidate is present; with a candidate it is called with no
\* rate limiter, makes no limiter call, and a failed primary attempt leaves
\* the limiter as it was.
C3_PrimaryLimiterIffNoCandidate ==
    [][\A h \in Handshakes :
          /\ (hs[h].pc = "idle" /\ hs'[h].pc = "awaitPrimary") =>
                 hs'[h].primaryRateLimiter =
                     (rateLimiter /\ hs'[h].deviceTokenCandidate = undefined)
          /\ (Resumes(h) /\ hs[h].deviceTokenCandidate # undefined) =>
                 /\ ~InSeq("primary.check", hs'[h].ops)
                 /\ ~InSeq("primary.recordFailure", hs'[h].ops)
                 /\ ~InSeq("primary.reset", hs'[h].ops)
                 /\ ~hs'[h].primaryResult.ok => limiter' = limiter
          /\ (Resumes(h) /\ hs[h].deviceTokenCandidate = undefined /\ rateLimiter) =>
                 InSeq("primary.check", hs'[h].ops)]_vars

\* With the limiter supplied: a wrong secret with a device-token candidate
\* failed without a limiter call while the IP has no failure counted, and a
\* handshake without candidate had the limiter passed to its primary call.
C3_Witness ==
    \E h1 \in Handshakes, h2 \in Handshakes :
        /\ rateLimiter
        /\ hs[h1].pc = "done"
        /\ hs[h1].deviceTokenCandidate # undefined
        /\ ~hs[h1].primaryRateLimiter
        /\ hs[h1].primaryResult = AuthFail("invalid_credentials")
        /\ hs[h1].ops = <<>>
        /\ limiter[SharedSecretKey(hs[h1].clientIp)] = NoFailures
        /\ hs[h2].pc = "done"
        /\ hs[h2].deviceTokenCandidate = undefined
        /\ hs[h2].primaryRateLimiter
        /\ InSeq("primary.check", hs[h2].ops)

\* C4: when the secondary check is performed and allowed, the shared-secret
\* counter of the client IP is reset in the same step, before the
\* ConnectAuthState is returned: a following check is allowed and finds no
\* failure counted.
C4_AllowedCheckResets ==
    [][\A h \in Handshakes :
          (/\ Resumes(h)
           /\ hs'[h].sharedRateCheck.performed
           /\ hs'[h].sharedRateCheck.allowed) =>
              /\ limiter'[SharedSecretKey(hs[h].clientIp)] = NoFailures
              /\ check(limiter', hs[h].clientIp,
                       AUTH_RATE_LIMIT_SCOPE_SHARED_SECRET).allowed
              /\ InSeq("reset", hs'[h].ops)
              /\ hs'[h].pc = "awaitProbe"
              /\ hs'[h].state = undefinedObject]_vars

\* A handshake passed the secondary check and reset the counter of an IP from
\* which another handshake had a failure counted.
C4_Witness ==
    \E h1 \in Handshakes, h2 \in Handshakes :
        /\ hs[h1].pc = "awaitProbe"
        /\ hs[h1].sharedRateCheck.performed
        /\ hs[h1].sharedRateCheck.allowed
        /\ InSeq("reset", hs[h1].ops)
        /\ limiter[SharedSecretKey(hs[h1].clientIp)] = NoFailures
        /\ hs[h2].clientIp = hs[h1].clientIp
        /\ hs[h2].pc = "done"
        /\ InSeq("primary.recordFailure", hs[h2].ops)

----------------------------------------------------------------------------
(* Further claims on resolveGatewayCredentialsFromConfig                   *)

\* C11: in remote mode with remotePasswordPrecedence = "env-first" (and no
\* explicit credentials or urlOverride) the password is the first present
\* value of environment, remote config, local config, and the token is the
\* first present value of remote config, environment, local config, as under
\* "remote-first"; for every input the token is the one resolved under
\* "remote-first", and outside remote mode the result is the same under every
\* value of the precedence parameter.
C11_EnvFirstPassword ==
    crPc = "returned" =>
        /\ (/\ ~ExplicitGiven
            /\ ~UrlGiven
            /\ crParams.mode = "remote"
            /\ crParams.remotePasswordPrecedence = "env-first") =>
               /\ crResult.password =
                      FirstPresent(<<crParams.OPENCLAW_GATEWAY_PASSWORD,
                                     crParams.CLAWDBOT_GATEWAY_PASSWORD,
                                     crParams.remotePassword,
                                     crParams.localPassword>>)
               /\ crResult.token =
                      FirstPresent(<<crParams.remoteToken,
                                     crParams.OPENCLAW_GATEWAY_TOKEN,
                                     crParams.CLAWDBOT_GATEWAY_TOKEN,
                                     crParams.localToken>>)
        /\ crResult.token =
               resolveGatewayCredentialsFromConfig(
                   [crParams EXCEPT !.remotePasswordPrecedence = "remote-first"]).token
        /\ crParams.mode # "remote" =>
               \A pr \in Precedences :
                   resolveGatewayCredentialsFromConfig(
                       [crParams EXCEPT !.remotePasswordPrecedence = pr]) = crResult

\* Remote mode, env-first, every source set: the password comes from the
\* environment and the token from remote config.
C11_Witness ==
    /\ crPc = "returned"
    /\ ~ExplicitGiven
    /\ ~UrlGiven
    /\ crParams.mode = "remote"
    /\ crParams.remotePasswordPrecedence = "env-first"
    /\ crParams.OPENCLAW_GATEWAY_TOKEN = <<"e">>
    /\ crParams.OPENCLAW_GATEWAY_PASSWORD = <<"f">>
    /\ crParams.remoteToken = <<"r">>
    /\ crParams.remotePassword = <<"s">>
    /\ crParams.localToken = <<"l">>
    /\ crParams.localPassword = <<"m">>
    /\ crResult = [token |-> <<"r">>, password |-> <<"f">>]

\* C12: in local mode or with mode unset, and no explicit credentials or
\* urlOverride, token and password are each the environment value if present,
\* else the local config value, one field independently of the other; the
\* values of gateway.remote are not in the result and the result is the same
\* whatever they are.
C12_LocalLadder ==
    (/\ crPc = "returned"
     /\ ~ExplicitGiven
     /\ ~UrlGiven
     /\ crParams.mode \in {"local", "unset"}) =>
        /\ crResult.token =
               FirstPresent(<<crParams.OPENCLAW_GATEWAY_TOKEN,
                              crParams.CLAWDBOT_GATEWAY_TOKEN,
                              crParams.localToken>>)
        /\ crResult.password =
               FirstPresent(<<crParams.OPENCLAW_GATEWAY_PASSWORD,
                              crParams.CLAWDBOT_GATEWAY_PASSWORD,
                              crParams.localPassword>>)
        /\ crResult.token # <<"r">>
        /\ crResult.password # <<"s">>
        /\ \A rt \in RemoteTokens, rp \in RemotePasswords :
               resolveGatewayCredentialsFromConfig(
                   [crParams EXCEPT !.remoteToken = rt, !.remotePassword = rp])
                   = crResult

\* Mode unset, gateway.remote fully set: the token comes from the environment,
\* the password, absent from the environment, from local config.
C12_Witness ==
    /\ crPc = "returned"
    /\ ~ExplicitGiven
    /\ ~UrlGiven
    /\ crParams.mode = "unset"
    /\ crParams.remoteToken = <<"r">>
    /\ crParams.remotePassword = <<"s">>
    /\ crParams.OPENCLAW_GATEWAY_TOKEN = <<"e">>
    /\ crParams.localToken = <<"l">>
    /\ crParams.OPENCLAW_GATEWAY_PASSWORD = Blank
    /\ crParams.CLAWDBOT_GATEWAY_PASSWORD = undefined
    /\ crParams.localPassword = <<"m">>
    /\ crResult = [token |-> <<"e">>, password |-> <<"m">>]

\* C17: the environment token and the environment password are each the
\* primary variable when it is present and the legacy variable only when the
\* primary is unset or blank: with the primary present the legacy variable
\* changes nothing, and the legacy variable of one field never changes or
\* appears in the other field.
C17_EnvLegacyAlias ==
    crPc = "returned" =>
        /\ (~ExplicitGiven /\ ~UrlGiven /\ crParams.mode # "remote") =>
               /\ Present(crParams.OPENCLAW_GATEWAY_TOKEN) =>
                      crResult.token = Stripped(crParams.OPENCLAW_GATEWAY_TOKEN)
               /\ (/\ ~Present(crParams.OPENCLAW_GATEWAY_TOKEN)
                   /\ Present(crParams.CLAWDBOT_GATEWAY_TOKEN)) =>
                      crResult.token = Stripped(crParams.CLAWDBOT_GATEWAY_TOKEN)
               /\ Present(crParams.OPENCLAW_GATEWAY_PASSWORD) =>
                      crResult.password =
                          Stripped(crParams.OPENCLAW_GATEWAY_PASSWORD)
               /\ (/\ ~Present(crParams.OPENCLAW_GATEWAY_PASSWORD)
                   /\ Present(crParams.CLAWDBOT_GATEWAY_PASSWORD)) =>
                      crResult.password =
                          Stripped(crParams.CLAWDBOT_GATEWAY_PASSWORD)
        /\ Present(crParams.OPENCLAW_GATEWAY_TOKEN) =>
               \A v \in EnvLegacyTokens :
                   resolveGatewayCredentialsFromConfig(
                       [crParams EXCEPT !.CLAWDBOT_GATEWAY_TOKEN = v]) = crResult
        /\ Present(crParams.OPENCLAW_GATEWAY_PASSWORD) =>
               \A v \in EnvLegacyPasswords :
                   resolveGatewayCredentialsFromConfig(
                       [crParams EXCEPT !.CLAWDBOT_GATEWAY_PASSWORD = v]) = crResult
        /\ \A v \in EnvLegacyPasswords :
               resolveGatewayCredentialsFromConfig(
                   [crParams EXCEPT !.CLAWDBOT_GATEWAY_PASSWORD = v]).token
                   = crResult.token
        /\ \A v \in EnvLegacyTokens :
               resolveGatewayCredentialsFromConfig(
                   [crParams EXCEPT !.CLAWDBOT_GATEWAY_TOKEN = v]).password
                   = crResult.password
        /\ ~ExplicitGiven =>
               /\ crResult.token \notin {<<"d">>, <<"f">>}
               /\ crResult.password \notin {<<"c">>, <<"e">>}

\* Both token variables set: the primary one wins; the primary password
\* variable blank: the legacy one supplies the password.
C17_Witness ==
    /\ crPc = "returned"
    /\ ~ExplicitGiven
    /\ ~UrlGiven
    /\ crParams.mode = "local"
    /\ crParams.OPENCLAW_GATEWAY_TOKEN = <<"e">>
    /\ crParams.CLAWDBOT_GATEWAY_TOKEN = <<"c">>
    /\ crParams.OPENCLAW_GATEWAY_PASSWORD = Blank
    /\ crParams.CLAWDBOT_GATEWAY_PASSWORD = <<"d">>
    /\ crParams.localToken = <<"l">>
    /\ crParams.localPassword = <<"m">>
    /\ crResult = [token |-> <<"e">>, password |-> <<"d">>]

----------------------------------------------------------------------------
(* Further claims on resolveConnectAuthState                               *)

\* The handshakes that have been called with a payload that was kept.
Called(h) == h \in observed /\ hs[h].pc \in {"awaitPrimary", "awaitProbe", "done"}

\* The string fields of the resolver's params.
CredentialFields ==
    {"explicitToken", "explicitPassword", "urlOverride",
     "OPENCLAW_GATEWAY_TOKEN", "CLAWDBOT_GATEWAY_TOKEN",
     "OPENCLAW_GATEWAY_PASSWORD", "CLAWDBOT_GATEWAY_PASSWORD",
     "remoteToken", "remotePassword", "localToken", "localPassword"}

\* The fields that are drawn absent or set, never blank.
NeverBlankFields ==
    {"CLAWDBOT_GATEWAY_TOKEN", "CLAWDBOT_GATEWAY_PASSWORD",
     "localToken", "localPassword"}

\* Resolver: the result for a blank value in a field is the result for the
\* field absent, and the result for an absent field the one for it blank; the
\* empty and the longer blank string are absent too.
BlankIsAbsentInResolver ==
    crPc = "returned" =>
        /\ \A f \in CredentialFields :
               crParams[f] = Blank =>
                   resolveGatewayCredentialsFromConfig(
                       [crParams EXCEPT ![f] = undefined]) = crResult
        /\ \A f \in NeverBlankFields :
               crParams[f] = undefined =>
                   resolveGatewayCredentialsFromConfig(
                       [crParams EXCEPT ![f] = Blank]) = crResult
        /\ credTrimToUndefined(<<>>) = undefined
        /\ credTrimToUndefined(<<" ", " ">>) = undefined

\* Orchestrator: a handshake whose token and password are blank or absent has
\* no sharedConnectAuth, so sharedAuthProvided is false, the primary strategy
\* is called with no credential and the probe is not called.
BlankIsAbsentInHandshake(h) ==
    (/\ Called(h)
     /\ ~Present(hs[h].connectAuth.token)
     /\ ~Present(hs[h].connectAuth.password)) =>
        /\ hs[h].sharedConnectAuth = undefinedObject
        /\ hs[h].primaryResult # undefinedObject =>
               \/ hs[h].primaryResult.ok /\ hs[h].primaryResult.method = "bypass"
               \/ ~hs[h].primaryResult.ok
                      /\ hs[h].primaryResult.reason \in {"missing_auth", "rate_limited"}
        /\ hs[h].pc # "awaitProbe"
        /\ hs[h].sharedAuthResult = undefinedObject
        /\ hs[h].pc = "done" =>
               /\ ~hs[h].state.sharedAuthProvided
               /\ ~hs[h].state.sharedAuthOk
        /\ trimToUndefined(<<>>) = undefined
        /\ trimToUndefined(<<" ", " ">>) = undefined

\* C13 as stated: a blank string is an absent field at every layer; in the
\* orchestrator a handshake whose token and password are blank has
\* sharedAuthProvided = false, passes no shared credential to either strategy
\* and has no deviceTokenCandidate.
C13_BlankHandshakeHasNoCandidate ==
    /\ BlankIsAbsentInResolver
    /\ \A h \in Handshakes :
           /\ BlankIsAbsentInHandshake(h)
           /\ (/\ Called(h)
               /\ ~Present(hs[h].connectAuth.token)
               /\ ~Present(hs[h].connectAuth.password)) =>
                  hs[h].deviceTokenCandidate = undefined

\* C13 amended: a blank string is an absent field at every layer; in the
\* orchestrator a handshake whose token and password are blank has
\* sharedAuthProvided = false, passes no shared credential to either strategy,
\* and its deviceTokenCandidate is not taken from the token: it is the trimmed
\* deviceToken when hasDeviceIdentity is true and deviceToken is non-blank,
\* and absent otherwise.
C13_BlankIsAbsent ==
    /\ BlankIsAbsentInResolver
    /\ \A h \in Handshakes :
           /\ BlankIsAbsentInHandshake(h)
           /\ (/\ Called(h)
               /\ ~Present(hs[h].connectAuth.token)
               /\ ~Present(hs[h].connectAuth.password)) =>
                  hs[h].deviceTokenCandidate =
                      IF /\ hs[h].hasDeviceIdentity
                         /\ Present(hs[h].connectAuth.deviceToken)
                      THEN Stripped(hs[h].connectAuth.deviceToken)
                      ELSE undefined

\* A handshake with a blank token, a blank password and a device token has
\* returned: no shared credential provided, the device token is the candidate.
C13_Witness ==
    \E h \in Handshakes :
        /\ Called(h)
        /\ hs[h].pc = "done"
        /\ hs[h].connectAuth.token = Blank
        /\ hs[h].connectAuth.password = Blank
        /\ hs[h].connectAuth.deviceToken = <<"d", " ">>
        /\ hs[h].hasDeviceIdentity
        /\ hs[h].req = "plain"
        /\ ~hs[h].state.sharedAuthProvided
        /\ hs[h].state.authResult = AuthFail("missing_auth")
        /\ hs[h].state.deviceTokenCandidate = <<"d">>

\* C18: deviceTokenCandidate is absent when hasDeviceIdentity is false,
\* whatever the handshake fields are; when hasDeviceIdentity is true it is the
\* trimmed deviceToken if that is non-blank, else the trimmed token if that is
\* non-blank, else absent, also when a password is presented; the
\* ConnectAuthState returned carries the same value.
C18_DeviceTokenCandidate ==
    \A h \in Handshakes :
        Called(h) =>
            LET ca == hs[h].connectAuth
                expected ==
                    IF ~hs[h].hasDeviceIdentity THEN undefined
                    ELSE IF Present(ca.deviceToken) THEN Stripped(ca.deviceToken)
                    ELSE IF Present(ca.token) THEN Stripped(ca.token)
                    ELSE undefined
            IN  /\ hs[h].deviceTokenCandidate = expected
                /\ hs[h].pc = "done" => hs[h].state.deviceTokenCandidate = expected
                /\ \A b \in {Blank, <<>>} :
                       /\ deviceTokenCandidateOf([ca EXCEPT !.deviceToken = b], TRUE)
                              = IF Present(ca.token) THEN Stripped(ca.token)
                                ELSE undefined
                       /\ deviceTokenCandidateOf([ca EXCEPT !.deviceToken = b], FALSE)
                              = undefined

\* With a device identity and no deviceToken: a handshake presenting only a
\* password has returned without candidate.
C18_Witness ==
    \E h \in Handshakes :
        /\ Called(h)
        /\ hs[h].pc = "done"
        /\ hs[h].hasDeviceIdentity
        /\ hs[h].connectAuth.deviceToken = undefined
        /\ hs[h].connectAuth.token = Blank
        /\ hs[h].connectAuth.password = <<" ", "s">>
        /\ hs[h].state.sharedAuthProvided
        /\ hs[h].state.deviceTokenCandidate = undefined

\* The closed set of failure reasons.
FailReasons == {"invalid_credentials", "rate_limited", "missing_auth"}

\* C14: every invocation of resolveConnectAuthState ends by returning a
\* ConnectAuthState whose authResult is Ok or a Fail with a reason of the
\* closed set; no invocation ends with a fault raised by a strategy.
C14_NothingThrows ==
    \A h \in Handshakes :
        /\ hs[h].pc # "threw"
        /\ hs[h].pc = "done" =>
               /\ hs[h].state # undefinedObject
               /\ hs[h].state.authOk = hs[h].state.authResult.ok
               /\ hs[h].state.authResult.ok
                      \/ hs[h].state.authResult.reason \in FailReasons

\* The limiter with every key but k as it is when nothing was ever counted.
OnlyKey(k) == [j \in DOMAIN limiter |-> IF j = k THEN limiter[j] ELSE NoFailures]

\* The step is a step of handshake h.
StepOf(h) == hs'[h] # hs[h]

\* C15: in every interleaving a step changes the locals of one handshake
\* only; a handshake changes no limiter key but (its own clientIp,
\* shared-secret), keys of other scopes are never changed, and what a
\* handshake gets on resuming from the primary call (primary result, verdict,
\* secondary check, the counter of its IP) is what it gets when the counters of
\* all other IPs are erased: handshakes from other IPs play no part in it.
C15_IndependentOfOtherIps ==
    [][/\ \A h \in Handshakes, g \in Handshakes :
              (StepOf(h) /\ StepOf(g)) => h = g
       /\ \A k \in DOMAIN limiter :
              limiter'[k] # limiter[k] =>
                  /\ k[2] = AUTH_RATE_LIMIT_SCOPE_SHARED_SECRET
                  /\ \/ \E h \in Handshakes :
                            StepOf(h) /\ k = SharedSecretKey(hs[h].clientIp)
                     \/ /\ hs' = hs
                        /\ limiter[k].lockedFor > 0
                        /\ limiter'[k] = NoFailures
       /\ \A h \in Handshakes :
              Resumes(h) =>
                  LET own == SharedSecretKey(hs[h].clientIp)
                      alone == primaryAndGate(h, OnlyKey(own))
                  IN  /\ hs'[h].primaryResult = alone.primaryResult
                      /\ hs'[h].authResult = alone.authResult
                      /\ hs'[h].sharedRateCheck = alone.sharedRateCheck
                      /\ hs'[h].ops = alone.ops
                      /\ limiter'[own] = alone.limiter[own]
                      /\ hs'[h].pc = "done" =>
                             hs'[h].state.authResult = alone.authResult]_vars

\* While one IP is locked out, a handshake with a device-token candidate from
\* the other IP has passed the secondary check with the right secret.
C15_Witness ==
    \E h \in Handshakes, ip \in ClientIps :
        /\ ip # hs[h].clientIp
        /\ Disallowed(ip)
        /\ hs[h].pc = "done"
        /\ hs[h].deviceTokenCandidate # undefined
        /\ hs[h].sharedRateCheck.performed
        /\ hs[h].sharedRateCheck.allowed
        /\ hs[h].state.authOk
        /\ limiter[SharedSecretKey(hs[h].clientIp)] = NoFailures
        /\ \A i \in ClientIps :
               limiter[<<i, AUTH_RATE_LIMIT_SCOPE_DEVICE_TOKEN>>] = NoFailures

\* The step in which handshake h resumes from the probe and returns.
ProbeReturns(h) == hs[h].pc = "awaitProbe" /\ hs'[h].pc = "done"

\* The verdicts a strategy can return.
Verdicts ==
    {AuthOk(m) : m \in {"token", "password", "bypass", "device"}}
        \cup {AuthFail(r) : r \in FailReasons}
        \cup {AuthRateLimited(LockoutMs)}

\* C16: the probe is called without a rate limiter and makes no limiter call:
\* the limiter after the probe is the limiter before it, for every IP and
\* scope; the authResult and authOk returned are the ones decided before the
\* probe was called, and are the same for every verdict the probe may return.
C16_ProbeHasNoEffect ==
    [][\A h \in Handshakes :
          ProbeReturns(h) =>
              /\ limiter' = limiter
              /\ hs'[h].ops = hs[h].ops
              /\ ~InSeq("probe.check", hs'[h].ops)
              /\ hs'[h].state.authResult = hs[h].authResult
              /\ hs'[h].state.authOk = hs[h].authResult.ok
              /\ \A v \in Verdicts :
                     LET st == connectAuthState(resolvedAuth, hs[h].authResult, v,
                                                hs[h].sharedConnectAuth,
                                                hs[h].deviceTokenCandidate)
                     IN  /\ st.authResult = hs'[h].state.authResult
                         /\ st.authOk = hs'[h].state.authOk]_vars

\* With the limiter supplied, a handshake let in by the bypass presented a
\* wrong secret: the probe turned the secret down and no failure was counted.
C16_Witness ==
    \E h \in Handshakes :
        /\ rateLimiter
        /\ hs[h].pc = "done"
        /\ hs[h].state.authOk
        /\ hs[h].state.authResult.method = "bypass"
        /\ hs[h].sharedAuthResult = AuthFail("invalid_credentials")
        /\ ~hs[h].state.sharedAuthOk
        /\ limiter[SharedSecretKey(hs[h].clientIp)] = NoFailures

C20_CheckAndResetInOneStep ==
    [][/\ \A h \in Handshakes :
              /\ (Resumes(h) /\ hs'[h].sharedRateCheck.performed) =>
                     /\ hs'[h].sharedRateCheck.allowed
                            = (limiter[SharedSecretKey(hs[h].clientIp)].lockedFor = 0)
                     /\ hs'[h].sharedRateCheck.allowed =>
                            /\ InSeq("reset", hs'[h].ops)
                            /\ limiter'[SharedSecretKey(hs[h].clientIp)] = NoFailures
                     /\ ~hs'[h].sharedRateCheck.allowed =>
                            /\ ~InSeq("reset", hs'[h].ops)
                            /\ limiter' = limiter
              /\ InSeq("reset", hs'[h].ops) =>
                     /\ hs'[h].sharedRateCheck.performed
                     /\ hs'[h].sharedRateCheck.allowed
              /\ hs'[h].pc \in {"idle", "awaitPrimary", "awaitProbe", "done", "threw"}
       /\ \A k \in DOMAIN limiter :
              (limiter[k].lockedFor > 0 /\ limiter'[k] # limiter[k]) =>
                  /\ hs' = hs
                  /\ limiter'[k] = NoFailures]_vars

\* A handshake was turned down by the secondary check while another one from
\* the same IP, which had passed the check and reset the counter before the
\* lockout arose, is still waiting for its probe: the lockout stands.
C20_Witness ==
    \E h1 \in Handshakes, h2 \in Handshakes :
        /\ hs[h1].clientIp = hs[h2].clientIp
        /\ hs[h1].pc = "awaitProbe"
        /\ hs[h1].sharedRateCheck.performed
        /\ hs[h1].sharedRateCheck.allowed
        /\ InSeq("reset", hs[h1].ops)
        /\ hs[h2].pc = "done"
        /\ hs[h2].sharedRateCheck.performed
        /\ ~hs[h2].sharedRateCheck.allowed
        /\ hs[h2].state.authResult.reason = "rate_limited"
        /\ Disallowed(hs[h1].clientIp)

====
